---------------------------- MODULE Spec2Model ----------------------------
(***************************************************************************)
(* Model of calendar_display.c: the month-grid calendar page drawn on the  *)
(* e-paper canvas.  The state is the position in draw_calendar_page and    *)
(* the static functions it calls, their locals, and the list of canvas     *)
(* commands issued by the running call.                                    *)
(***************************************************************************)
EXTENDS Integers, Sequences, FiniteSets

VARIABLES
    pc,           \* position in the running function
    ret,          \* where the running static function returns to
    tm,           \* tm_t filled by transformTime
    dow,          \* what day_of_week_get answers for (month, 1, year)
    year,         \* uint16_t year
    month,        \* uint8_t month
    current_day,  \* uint8_t current_day
    wh_i,         \* loop index of draw_week_header
    grid_i,       \* loop index of draw_calendar_grid
    grid_width,   \* uint8_t grid_width
    grid_height,  \* uint8_t grid_height
    first_day,    \* uint8_t first_day
    days_count,   \* uint8_t days_count
    row,          \* uint8_t row
    col,          \* uint8_t col
    day,          \* uint8_t day
    cmds,         \* canvas commands issued by the running call, in order
    oob,          \* an array or buffer was accessed outside its bounds
    wrap,         \* a value did not fit the uint8_t it was stored in
    firstIn,      \* the input of the first draw_calendar_page call observed
    firstOut      \* the commands that first call issued

vars == <<pc, ret, tm, dow, year, month, current_day, wh_i, grid_i,
          grid_width, grid_height, first_day, days_count, row, col, day,
          cmds, oob, wrap, firstIn, firstOut>>

locals == <<wh_i, grid_i, grid_width, grid_height, first_day, days_count,
            row, col, day>>

\* ------------------------------------------------------------ bounds

\* largest current_day handed to draw_calendar_dates on its own
MaxCurrentDay == 32

\* years get_days_in_month is looked up for on its own
LookupYearLo == 1890

LookupYearSpan == 220

\* ------------------------------------------------- integer widths

U8(v) == v % 256

U16(v) == v % 65536

Fits8(v) == v \in 0..255

\* ------------------------------------------------- external library

\* etime.h
YEAR0 == 1900

\* etime: the Gregorian leap rule, answered as 0 or 1
is_leap(y) ==
    IF y % 4 = 0 /\ (y % 100 # 0 \/ y % 400 = 0) THEN 1 ELSE 0

\* etime: 0 = Sunday .. 6 = Saturday; the answer for the 1st of the month
\* is held in dow
day_of_week_get(m, d, y) == dow

\* GUI_Paint.h colours
BLACK == "BLACK"

WHITE == "WHITE"

\* ------------------------------------------------- tables

days_in_month_rows_swapped ==
    << <<31, 29, 31, 30, 31, 30, 31, 31, 30, 31, 30, 31>>,
       <<31, 28, 31, 30, 31, 30, 31, 31, 30, 31, 30, 31>> >>

days_in_month ==
    << <<31, 28, 31, 30, 31, 30, 31, 31, 30, 31, 30, 31>>,
       <<31, 29, 31, 30, 31, 30, 31, 31, 30, 31, 30, 31>> >>

\* the labels are the code points of the UTF-8 literals
week_names_cn ==
    << <<"U+65E5">>, <<"U+4E00">>, <<"U+4E8C">>, <<"U+4E09">>,
       <<"U+56DB">>, <<"U+4E94">>, <<"U+516D">> >>

\* ------------------------------------------------- strings

\* a string is a sequence of characters: one ASCII character, or one code
\* point "U+XXXX" of the Basic Multilingual Plane above U+07FF (3 bytes)
DigitChar(d) == <<"0", "1", "2", "3", "4", "5", "6", "7", "8", "9">>[d + 1]

RECURSIVE FormatD(_)
\* sprintf "%d" of a value that is not negative
FormatD(n) ==
    IF n < 10 THEN <<DigitChar(n)>>
    ELSE Append(FormatD(n \div 10), DigitChar(n % 10))

\* sprintf "%02d" of a value that is not negative
Format02D(n) == IF n < 10 THEN <<"0">> \o FormatD(n) ELSE FormatD(n)

AsciiChars == {"0", "1", "2", "3", "4", "5", "6", "7", "8", "9", ":"}

CharBytes(c) == IF c \in AsciiChars THEN 1 ELSE 3

RECURSIVE ByteLen(_)
ByteLen(s) == IF s = <<>> THEN 0 ELSE CharBytes(Head(s)) + ByteLen(Tail(s))

\* bytes sprintf writes: the characters and the terminator
BytesWritten(s) == ByteLen(s) + 1

\* ------------------------------------------------- canvas commands

Cmd(by, op, pos, str, attr) ==
    [by |-> by, op |-> op, pos |-> pos, str |-> str, attr |-> attr]

Paint_Clear(by, color) == Cmd(by, "Paint_Clear", <<>>, <<>>, <<color>>)

EPD_DrawUTF8(by, x, y, scale, str, font, font2, fg, bg) ==
    Cmd(by, "EPD_DrawUTF8", <<x, y, scale>>, str, <<font, font2, fg, bg>>)

Paint_DrawLine(by, x0, y0, x1, y1, color, width, style) ==
    Cmd(by, "Paint_DrawLine", <<x0, y0, x1, y1>>, <<>>, <<color, width, style>>)

Paint_DrawRectangle(by, x0, y0, x1, y1, color, width, fill) ==
    Cmd(by, "Paint_DrawRectangle", <<x0, y0, x1, y1>>, <<>>,
        <<color, width, fill>>)

\* ------------------------------------------------- calendar fields

get_first_day_of_month(y, m) == day_of_week_get(m, 1, y)

\* the column of the table get_days_in_month reads
DaysColumnNoOffset(m) == m

DaysColumn(m) == m - 1

TableIndexOK(r, c) == r \in 0..1 /\ c \in 0..11

\* what the read days_in_month[r][c] can yield: the entry, or any byte when
\* the index lies outside the table
TableRead(r, c) ==
    IF TableIndexOK(r, c) THEN {days_in_month[r + 1][c + 1]} ELSE 0..255

\* the values get_days_in_month(y, m) can return
get_days_in_month(y, m) == TableRead(U8(is_leap(y)), DaysColumn(m))

get_days_in_month_ok(y, m) == TableIndexOK(U8(is_leap(y)), DaysColumn(m))

\* ------------------------------------------------- draw_calendar_title

title_buf_size == 20

TitleText(y, m) == FormatD(y) \o <<"U+5E74">> \o FormatD(m) \o <<"U+6708">>

draw_calendar_title ==
    /\ pc = "title"
    /\ cmds' = Append(cmds, EPD_DrawUTF8("title", 50, 2, 1, TitleText(year, month),
                                         "EPD_ASCII_11X16", "EPD_FontUTF8_16x16",
                                         BLACK, WHITE))
    /\ oob' = (oob \/ BytesWritten(TitleText(year, month)) > title_buf_size)
    /\ pc' = ret
    /\ UNCHANGED <<ret, tm, dow, year, month, current_day, locals, wrap,
                   firstIn, firstOut>>

\* ------------------------------------------------- draw_week_header

wh_x_start == 10

wh_y_pos == 25

wh_cell_width == 28

week_names_count == 7

WeekHeaderCond(i) == i < 7

WeekLabel(i) == IF i \in 0..(week_names_count - 1) THEN week_names_cn[i + 1] ELSE <<>>

WeekHeaderEnter ==
    /\ pc = "wh_enter"
    /\ wh_i' = 0
    /\ pc' = "wh_loop"
    /\ UNCHANGED <<ret, tm, dow, year, month, current_day, grid_i, grid_width,
                   grid_height, first_day, days_count, row, col, day, cmds,
                   oob, wrap, firstIn, firstOut>>

WeekHeaderIter ==
    /\ pc = "wh_loop"
    /\ WeekHeaderCond(wh_i)
    /\ LET x_pos_int == wh_x_start + wh_i * wh_cell_width
           x_pos == U8(x_pos_int)
       IN  /\ cmds' = Append(cmds, EPD_DrawUTF8("header", x_pos + 8, wh_y_pos, 0,
                                                WeekLabel(wh_i), "EPD_ASCII_7X12",
                                                "EPD_FontUTF8_16x16", BLACK, WHITE))
           /\ wrap' = (wrap \/ ~Fits8(x_pos_int) \/ ~Fits8(wh_i + 1))
    /\ oob' = (oob \/ wh_i \notin 0..(week_names_count - 1))
    /\ wh_i' = U8(wh_i + 1)
    /\ UNCHANGED <<pc, ret, tm, dow, year, month, current_day, grid_i,
                   grid_width, grid_height, first_day, days_count, row, col,
                   day, firstIn, firstOut>>

WeekHeaderExit ==
    /\ pc = "wh_loop"
    /\ ~WeekHeaderCond(wh_i)
    /\ pc' = ret
    /\ UNCHANGED <<ret, tm, dow, year, month, current_day, locals, cmds, oob,
                   wrap, firstIn, firstOut>>

\* ------------------------------------------------- draw_calendar_grid

grid_x_start == 10

grid_y_start == 40

grid_cell_width == 28

grid_cell_height == 12

GridHCondShort(i) == i < 6

GridHCond(i) == i <= 6

GridVCond(i) == i <= 7

GridEnter ==
    /\ pc = "grid_enter"
    /\ grid_width' = U8(7 * grid_cell_width)
    /\ grid_height' = U8(6 * grid_cell_height)
    /\ wrap' = (wrap \/ ~Fits8(7 * grid_cell_width) \/ ~Fits8(6 * grid_cell_height))
    /\ grid_i' = 0
    /\ pc' = "grid_h"
    /\ UNCHANGED <<ret, tm, dow, year, month, current_day, wh_i, first_day,
                   days_count, row, col, day, cmds, oob, firstIn, firstOut>>

GridHLine ==
    /\ pc = "grid_h"
    /\ GridHCond(grid_i)
    /\ LET y_int == grid_y_start + grid_i * grid_cell_height
           y == U8(y_int)
       IN  /\ cmds' = Append(cmds, Paint_DrawLine("grid", grid_x_start, y,
                                                  grid_x_start + grid_width, y, BLACK,
                                                  "DOT_PIXEL_1X1", "LINE_STYLE_SOLID"))
           /\ wrap' = (wrap \/ ~Fits8(y_int) \/ ~Fits8(grid_i + 1))
    /\ grid_i' = U8(grid_i + 1)
    /\ UNCHANGED <<pc, ret, tm, dow, year, month, current_day, wh_i, grid_width,
                   grid_height, first_day, days_count, row, col, day, oob,
                   firstIn, firstOut>>

GridHDone ==
    /\ pc = "grid_h"
    /\ ~GridHCond(grid_i)
    /\ grid_i' = 0
    /\ pc' = "grid_v"
    /\ UNCHANGED <<ret, tm, dow, year, month, current_day, wh_i, grid_width,
                   grid_height, first_day, days_count, row, col, day, cmds,
                   oob, wrap, firstIn, firstOut>>

GridVLine ==
    /\ pc = "grid_v"
    /\ GridVCond(grid_i)
    /\ LET x_int == grid_x_start + grid_i * grid_cell_width
           x == U8(x_int)
       IN  /\ cmds' = Append(cmds, Paint_DrawLine("grid", x, grid_y_start, x,
                                                  grid_y_start + grid_height, BLACK,
                                                  "DOT_PIXEL_1X1", "LINE_STYLE_SOLID"))
           /\ wrap' = (wrap \/ ~Fits8(x_int) \/ ~Fits8(grid_i + 1))
    /\ grid_i' = U8(grid_i + 1)
    /\ UNCHANGED <<pc, ret, tm, dow, year, month, current_day, wh_i, grid_width,
                   grid_height, first_day, days_count, row, col, day, oob,
                   firstIn, firstOut>>

GridExit ==
    /\ pc = "grid_v"
    /\ ~GridVCond(grid_i)
    /\ pc' = ret
    /\ UNCHANGED <<ret, tm, dow, year, month, current_day, locals, cmds, oob,
                   wrap, firstIn, firstOut>>

\* ------------------------------------------------- draw_calendar_dates

dates_x_start == 10

dates_y_start == 40

dates_cell_width == 28

dates_cell_height == 12

day_buf_size == 3

DatesLoopCondShort(d, n) == d < n

DatesLoopCond(d, n) == d <= n

IsCurrentDayOrLater(d, cur) == d >= cur

IsCurrentDay(d, cur) == d = cur

CursorWrapsLate(c) == c > 7

CursorWraps(c) == c >= 7

RectX0OnLine(c) == dates_x_start + c * dates_cell_width

RectX0(c) == dates_x_start + c * dates_cell_width + 1

RectY0(r) == dates_y_start + r * dates_cell_height + 1

RectX1(c) == dates_x_start + (c + 1) * dates_cell_width - 1

RectY1(r) == dates_y_start + (r + 1) * dates_cell_height - 1

DayXPosWide(c) == dates_x_start + c * dates_cell_width + 80

DayXPos(c) == dates_x_start + c * dates_cell_width + 8

DayYPos(r) == dates_y_start + r * dates_cell_height + 2

DatesEnterKeepsRow ==
    /\ pc = "dates_enter"
    /\ first_day' = U8(get_first_day_of_month(year, month))
    /\ \E n \in get_days_in_month(year, month) : days_count' = n
    /\ oob' = (oob \/ ~get_days_in_month_ok(year, month))
    /\ row' = row
    /\ col' = first_day'
    /\ day' = 1
    /\ pc' = "dates_loop"
    /\ UNCHANGED <<ret, tm, dow, year, month, current_day, wh_i, grid_i,
                   grid_width, grid_height, cmds, wrap, firstIn, firstOut>>

DatesEnter ==
    /\ pc = "dates_enter"
    /\ first_day' = U8(get_first_day_of_month(year, month))
    /\ \E n \in get_days_in_month(year, month) : days_count' = n
    /\ oob' = (oob \/ ~get_days_in_month_ok(year, month))
    /\ row' = 0
    /\ col' = first_day'
    /\ day' = 1
    /\ pc' = "dates_loop"
    /\ UNCHANGED <<ret, tm, dow, year, month, current_day, wh_i, grid_i,
                   grid_width, grid_height, cmds, wrap, firstIn, firstOut>>

DatesIter ==
    /\ pc = "dates_loop"
    /\ DatesLoopCond(day, days_count)
    /\ LET x_pos == U8(DayXPos(col))
           y_pos == U8(DayYPos(row))
           day_buf == FormatD(day)
           rect == Paint_DrawRectangle("dates", RectX0(col), RectY0(row),
                                       RectX1(col), RectY1(row), BLACK,
                                       "DOT_PIXEL_1X1", "DRAW_FILL_FULL")
           inverted == EPD_DrawUTF8("dates", x_pos, y_pos, 0, day_buf,
                                    "EPD_ASCII_7X12", "0", WHITE, BLACK)
           normal == EPD_DrawUTF8("dates", x_pos, y_pos, 0, day_buf,
                                  "EPD_ASCII_7X12", "0", BLACK, WHITE)
       IN  /\ cmds' = IF IsCurrentDay(day, current_day)
                      THEN cmds \o <<rect, inverted>>
                      ELSE Append(cmds, normal)
           /\ oob' = (oob \/ BytesWritten(day_buf) > day_buf_size)
           /\ wrap' = (wrap \/ ~Fits8(DayXPos(col)) \/ ~Fits8(DayYPos(row))
                            \/ ~Fits8(col + 1) \/ ~Fits8(row + 1) \/ ~Fits8(day + 1))
    /\ IF CursorWraps(U8(col + 1))
       THEN col' = 0 /\ row' = U8(row + 1)
       ELSE col' = U8(col + 1) /\ row' = row
    /\ day' = U8(day + 1)
    /\ UNCHANGED <<pc, ret, tm, dow, year, month, current_day, wh_i, grid_i,
                   grid_width, grid_height, first_day, days_count, firstIn,
                   firstOut>>

DatesExit ==
    /\ pc = "dates_loop"
    /\ ~DatesLoopCond(day, days_count)
    /\ pc' = ret
    /\ UNCHANGED <<ret, tm, dow, year, month, current_day, locals, cmds, oob,
                   wrap, firstIn, firstOut>>

\* ------------------------------------------------- get_days_in_month alone

LookupCall ==
    /\ pc = "lookup"
    /\ \E n \in get_days_in_month(year, month) : days_count' = n
    /\ oob' = (oob \/ ~get_days_in_month_ok(year, month))
    /\ pc' = ret
    /\ UNCHANGED <<ret, tm, dow, year, month, current_day, wh_i, grid_i,
                   grid_width, grid_height, first_day, row, col, day, cmds,
                   wrap, firstIn, firstOut>>

\* ------------------------------------------------- draw_calendar_page

time_buf_size == 20

TimeText(h, m) == Format02D(h) \o <<":">> \o Format02D(m)

\* transformTime and the three fields read from its result
PageBegin(t, d) ==
    /\ pc = "idle"
    /\ tm' = t
    /\ dow' = d
    /\ year' = U16(t.tm_year + YEAR0)
    /\ month' = U8(t.tm_mon + 1)
    /\ current_day' = U8(t.tm_mday)
    /\ cmds' = <<>>
    /\ pc' = "p_clear"
    /\ UNCHANGED <<ret, locals, oob, wrap>>

PageClearOmitted ==
    /\ pc = "p_clear"
    /\ pc' = "p_title"
    /\ UNCHANGED <<ret, tm, dow, year, month, current_day, locals, cmds, oob,
                   wrap, firstIn, firstOut>>

PageClear ==
    /\ pc = "p_clear"
    /\ cmds' = Append(cmds, Paint_Clear("clear", WHITE))
    /\ pc' = "p_title"
    /\ UNCHANGED <<ret, tm, dow, year, month, current_day, locals, oob, wrap,
                   firstIn, firstOut>>

PageCall(at, entry, back) ==
    /\ pc = at
    /\ pc' = entry
    /\ ret' = back
    /\ UNCHANGED <<tm, dow, year, month, current_day, locals, cmds, oob, wrap,
                   firstIn, firstOut>>

PageCallTitle == PageCall("p_title", "title", "p_header")

PageCallWeekHeader == PageCall("p_header", "wh_enter", "p_grid")

PageCallGrid == PageCall("p_grid", "grid_enter", "p_dates")

PageCallDates == PageCall("p_dates", "dates_enter", "p_footer")

PageFooter ==
    /\ pc = "p_footer"
    /\ cmds' = Append(cmds, EPD_DrawUTF8("footer", 150, 115, 1,
                                         TimeText(tm.tm_hour, tm.tm_min),
                                         "EPD_ASCII_11X16", "EPD_FontUTF8_16x16",
                                         BLACK, WHITE))
    /\ oob' = (oob \/ BytesWritten(TimeText(tm.tm_hour, tm.tm_min)) > time_buf_size)
    /\ pc' = "idle"
    /\ UNCHANGED <<ret, tm, dow, year, month, current_day, locals, wrap,
                   firstIn, firstOut>>

\* ------------------------------------------------- inputs

Tm(y, mon, mday, h, min) ==
    [tm_year |-> y, tm_mon |-> mon, tm_mday |-> mday, tm_hour |-> h, tm_min |-> min]

\* (tm_mday, tm_hour, tm_min) of the timestamps tried
ClockSamples == {<<1, 0, 0>>, <<15, 9, 5>>, <<31, 23, 59>>}

\* tm_year of the timestamps tried: 2023 and 2024
TmYears == {123, 124}

TmOutcomes ==
    {Tm(y, mon, c[1], c[2], c[3]) : y \in TmYears, mon \in 0..11, c \in ClockSamples}

Weekdays == 0..6

\* the answers of day_of_week_get tried with whole pages
PageWeekdays == {0, 3, 6}

\* the timestamps called with more than once: what transformTime and
\* day_of_week_get answer for each
RepeatInputs ==
    { [tm |-> Tm(124, 1, 15, 9, 5), dow |-> 4],
      [tm |-> Tm(123, 1, 28, 23, 59), dow |-> 3],
      [tm |-> Tm(124, 11, 1, 0, 0), dow |-> 6],
      [tm |-> Tm(124, 11, 31, 12, 30), dow |-> 0],
      [tm |-> Tm(100, 0, 8, 7, 7), dow |-> 6],
      [tm |-> Tm(200, 3, 30, 10, 10), dow |-> 5] }

UnitYears == {1900, 2000, 2023, 2024}

Months == 1..12

LookupMaxMonth == 13

LookupYears == LookupYearLo..(LookupYearLo + LookupYearSpan)

\* ------------------------------------------------- specifications

PageEnter ==
    /\ \E t \in TmOutcomes, d \in PageWeekdays : PageBegin(t, d)
    /\ UNCHANGED <<firstIn, firstOut>>

\* a call that also keeps the first call's input and, when the second call
\* begins, the commands the first one issued
PageEnterRepeat ==
    \E in \in RepeatInputs :
        /\ PageBegin(in.tm, in.dow)
        /\ firstIn' = IF firstIn = <<>> THEN <<in>> ELSE firstIn
        /\ firstOut' = IF firstIn # <<>> /\ firstOut = <<>> THEN <<cmds>> ELSE firstOut

Start(p, r, y, m, cur, d) ==
    /\ pc = p
    /\ ret = r
    /\ tm = Tm(0, 0, 0, 0, 0)
    /\ dow = d
    /\ year = y
    /\ month = m
    /\ current_day = cur
    /\ wh_i = 0
    /\ grid_i = 0
    /\ grid_width = 0
    /\ grid_height = 0
    /\ first_day = 0
    /\ days_count = 0
    /\ row = 0
    /\ col = 0
    /\ day = 0
    /\ cmds = <<>>
    /\ oob = FALSE
    /\ wrap = FALSE
    /\ firstIn = <<>>
    /\ firstOut = <<>>

Init == Start("idle", "none", 0, 0, 0, 0)

Render ==
    \/ PageClear
    \/ PageCallTitle
    \/ draw_calendar_title
    \/ PageCallWeekHeader
    \/ WeekHeaderEnter
    \/ WeekHeaderIter
    \/ WeekHeaderExit
    \/ PageCallGrid
    \/ GridEnter
    \/ GridHLine
    \/ GridHDone
    \/ GridVLine
    \/ GridExit
    \/ PageCallDates
    \/ DatesEnter
    \/ DatesIter
    \/ DatesExit
    \/ PageFooter

Next == PageEnter \/ Render

Spec == Init /\ [][Next]_vars

NextRepeat == PageEnterRepeat \/ Render

SpecRepeat == Init /\ [][NextRepeat]_vars

\* each static renderer called on its own
InitUnit ==
    \/ \E y \in UnitYears, m \in Months : Start("title", "unit_title", y, m, 0, 0)
    \/ Start("wh_enter", "unit_header", 0, 0, 0, 0)
    \/ Start("grid_enter", "unit_grid", 0, 0, 0, 0)
    \/ \E y \in UnitYears, m \in Months, cur \in 0..MaxCurrentDay, d \in Weekdays :
           Start("dates_enter", "unit_dates", y, m, cur, d)

NextUnit ==
    \/ draw_calendar_title
    \/ WeekHeaderEnter
    \/ WeekHeaderIter
    \/ WeekHeaderExit
    \/ GridEnter
    \/ GridHLine
    \/ GridHDone
    \/ GridVLine
    \/ GridExit
    \/ DatesEnter
    \/ DatesIter
    \/ DatesExit

SpecUnit == InitUnit /\ [][NextUnit]_vars

\* get_days_in_month called on its own
InitLookup ==
    \E y \in LookupYears, m \in 0..LookupMaxMonth :
        Start("lookup", "unit_lookup", y, m, 0, 0)

NextLookup == LookupCall

SpecLookup == InitLookup /\ [][NextLookup]_vars

\* whole pages, and get_days_in_month on its own with any month
InitBounds == Init \/ InitLookup

NextBounds == Next \/ NextLookup

SpecBounds == InitBounds /\ [][NextBounds]_vars

\* ------------------------------------------------- reading the commands

IsText(c) == c.op = "EPD_DrawUTF8"

IsRect(c) == c.op = "Paint_DrawRectangle"

IsLine(c) == c.op = "Paint_DrawLine"

DayTexts == SelectSeq(cmds, LAMBDA c : c.by = "dates" /\ IsText(c))

DayRects == SelectSeq(cmds, LAMBDA c : c.by = "dates" /\ IsRect(c))

InvertedTexts ==
    SelectSeq(cmds, LAMBDA c : c.by = "dates" /\ IsText(c)
                                /\ c.attr[3] = WHITE /\ c.attr[4] = BLACK)

\* the Gregorian calendar, stated apart from the table
GregorianLeap(y) == (y % 4 = 0) /\ (y % 100 # 0 \/ y % 400 = 0)

GregorianDays(y, m) ==
    CASE m \in {1, 3, 5, 7, 8, 10, 12} -> 31
      [] m \in {4, 6, 9, 11} -> 30
      [] m = 2 -> IF GregorianLeap(y) THEN 29 ELSE 28

\* the cell a day falls in when the 1st is on weekday f
CellRow(f, d) == (f + d - 1) \div 7

CellCol(f, d) == (f + d - 1) % 7

\* ------------------------------------------------- claims

\* C2: the running (row, col) cursor of draw_calendar_dates, started at
\* (0, first) and advanced by col+1 with wrap at 7, holds
\* row = (first + d - 1) / 7 and col = (first + d - 1) mod 7 for the day d
\* about to be drawn, with 0 <= row <= 5 and 0 <= col <= 6 for every day
\* of the month, and every day number is drawn at the pixel position of
\* that cell.
C2_CursorFollowsFormula ==
    /\ pc = "dates_loop" =>
          /\ row = CellRow(first_day, day)
          /\ col = CellCol(first_day, day)
          /\ day <= days_count => (row \in 0..5 /\ col \in 0..6)
    /\ pc = "unit_dates" =>
          \A k \in 1..Len(DayTexts) :
              /\ DayTexts[k].str = FormatD(k)
              /\ DayTexts[k].pos = <<10 + CellCol(first_day, k) * 28 + 8,
                                     40 + CellRow(first_day, k) * 12 + 2, 0>>
              /\ CellRow(first_day, k) \in 0..5
              /\ CellCol(first_day, k) \in 0..6

\* with first = 6, day 1 was drawn at (row 0, col 6) and day 2 is at (row 1, col 0)
C2_Witness ==
    /\ pc = "dates_loop"
    /\ first_day = 6
    /\ day = 2
    /\ row = 1
    /\ col = 0
    /\ cmds[1].pos = <<10 + 6 * 28 + 8, 40 + 2, 0>>

\* C3: one run of draw_calendar_dates draws exactly one highlighted cell
\* (a filled rectangle and an inverted number) when current_day is in
\* 1..days_in_month, the cell of day current_day, and none when
\* current_day is 0 or beyond the month.
C3_OneHighlight ==
    pc = "unit_dates" =>
        IF current_day \in 1..GregorianDays(year, month)
        THEN /\ Len(DayRects) = 1
             /\ Len(InvertedTexts) = 1
             /\ InvertedTexts[1].str = FormatD(current_day)
             /\ LET r == CellRow(first_day, current_day)
                    c == CellCol(first_day, current_day)
                    p == DayRects[1].pos
                IN  /\ p[1] > grid_x_start + c * grid_cell_width
                    /\ p[3] < grid_x_start + (c + 1) * grid_cell_width
                    /\ p[2] > grid_y_start + r * grid_cell_height
                    /\ p[4] < grid_y_start + (r + 1) * grid_cell_height
                    /\ InvertedTexts[1].pos[1] \in p[1]..p[3]
                    /\ InvertedTexts[1].pos[2] \in p[2]..p[4]
        ELSE /\ Len(DayRects) = 0
             /\ Len(InvertedTexts) = 0

C3_Witness ==
    /\ pc = "unit_dates"
    /\ year = 2023
    /\ month = 2
    /\ current_day = 28
    /\ Len(DayRects) = 1
    /\ InvertedTexts[1].str = <<"2", "8">>

\* C4: each run draws exactly days_in_month(year, month) day numbers, at
\* most 31, the numbers 1..days_in_month once each and in order, no two in
\* the same cell, so every other cell of the grid gets none; the loop ends
\* right after the last day.  February 2024 gives 29 and February 2023
\* gives 28.
C4_DaysDrawnOnce ==
    pc = "unit_dates" =>
        /\ Len(DayTexts) = GregorianDays(year, month)
        /\ Len(DayTexts) <= 31
        /\ day = GregorianDays(year, month) + 1
        /\ \A k \in 1..Len(DayTexts) : DayTexts[k].str = FormatD(k)
        /\ Cardinality({<<DayTexts[k].pos[1], DayTexts[k].pos[2]>> :
                            k \in 1..Len(DayTexts)}) = Len(DayTexts)
        /\ (year = 2024 /\ month = 2) => Len(DayTexts) = 29
        /\ (year = 2023 /\ month = 2) => Len(DayTexts) = 28

C4_Witness ==
    /\ pc = "unit_dates"
    /\ year = 2024
    /\ month = 2
    /\ Len(DayTexts) = 29
    /\ DayTexts[29].str = <<"2", "9">>

\* C5: get_days_in_month(y, m) returns the Gregorian day count for every
\* year and every month 1..12, the leap flag being set iff y is divisible
\* by 4 and (not by 100, or by 400); the two rows of the table are equal
\* except for February, 29 against 28.
C5_GregorianDayCount ==
    /\ (pc = "unit_lookup" /\ month \in 1..12) =>
          /\ days_count = GregorianDays(year, month)
          /\ (is_leap(year) = 1) <=> GregorianLeap(year)
          /\ ~oob
    /\ \A m \in 1..12 :
          IF m = 2
          THEN days_in_month[2][m] = 29 /\ days_in_month[1][m] = 28
          ELSE days_in_month[2][m] = days_in_month[1][m]

C5_Witness ==
    /\ pc = "unit_lookup"
    /\ year = 2000
    /\ month = 2
    /\ days_count = 29

\* C6: draw_calendar_grid issues exactly 7 horizontal lines at
\* y = y_start + i*12, i in 0..6, from x_start to x_start + 7*28, then
\* exactly 8 vertical lines at x = x_start + i*28, i in 0..7, from y_start
\* to y_start + 6*12: a closed lattice of 7 by 6 cells of 28x12 whose line
\* ends all lie on its outer border.
C6_GridLattice ==
    pc = "unit_grid" =>
        /\ Len(cmds) = 15
        /\ \A k \in 1..Len(cmds) : IsLine(cmds[k]) /\ cmds[k].attr[1] = BLACK
        /\ \A i \in 0..6 :
              cmds[i + 1].pos = <<10, 40 + i * 12, 10 + 7 * 28, 40 + i * 12>>
        /\ \A i \in 0..7 :
              cmds[i + 8].pos = <<10 + i * 28, 40, 10 + i * 28, 40 + 6 * 12>>
        /\ \A k \in 1..Len(cmds) :
              LET p == cmds[k].pos
              IN  /\ (p[1] \in {10, 206} \/ p[2] \in {40, 112})
                  /\ (p[3] \in {10, 206} \/ p[4] \in {40, 112})

C6_Witness ==
    /\ pc = "unit_grid"
    /\ Len(cmds) = 15
    /\ cmds[15].pos = <<206, 40, 206, 112>>

\* C8: for the day equal to current_day draw_calendar_dates first draws a
\* filled BLACK rectangle whose corners lie one pixel inside the four grid
\* lines of that day's cell, and right after it the day number WHITE on
\* BLACK; every other day is drawn as the number alone, BLACK on WHITE,
\* with no rectangle before it.
C8_HighlightInsideCell ==
    pc = "unit_dates" =>
        \A k \in 1..Len(cmds) :
            /\ IsRect(cmds[k]) =>
                  /\ k < Len(cmds)
                  /\ IsText(cmds[k + 1])
                  /\ cmds[k + 1].str = FormatD(current_day)
                  /\ cmds[k].attr = <<BLACK, "DOT_PIXEL_1X1", "DRAW_FILL_FULL">>
                  /\ LET r == CellRow(first_day, current_day)
                         c == CellCol(first_day, current_day)
                     IN  cmds[k].pos =
                             <<grid_x_start + c * grid_cell_width + 1,
                               grid_y_start + r * grid_cell_height + 1,
                               grid_x_start + (c + 1) * grid_cell_width - 1,
                               grid_y_start + (r + 1) * grid_cell_height - 1>>
            /\ IsText(cmds[k]) =>
                  IF cmds[k].str = FormatD(current_day)
                  THEN /\ cmds[k].attr[3] = WHITE
                       /\ cmds[k].attr[4] = BLACK
                       /\ k > 1
                       /\ IsRect(cmds[k - 1])
                  ELSE /\ cmds[k].attr[3] = BLACK
                       /\ cmds[k].attr[4] = WHITE
                       /\ (k = 1 \/ IsText(cmds[k - 1]))

C8_Witness ==
    /\ pc = "unit_dates"
    /\ current_day = 15
    /\ first_day = 4
    /\ IsRect(cmds[15])
    /\ cmds[16].str = <<"1", "5">>
    /\ cmds[16].attr[3] = WHITE
    /\ cmds[14].attr[3] = BLACK

\* the x and the y coordinates of a command of the header, grid and date
\* renderers
XCoords(c) == IF IsText(c) THEN {c.pos[1]} ELSE {c.pos[1], c.pos[3]}

YCoords(c) == IF IsText(c) THEN {c.pos[2]} ELSE {c.pos[2], c.pos[4]}

LastCmds == {cmds[k] : k \in {j \in 1..Len(cmds) : j >= Len(cmds) - 1}}

\* C9: no coordinate of the week header, grid and date renderers wraps
\* around its uint8_t: every value stored equals the unbounded value of
\* its layout formula, and every coordinate handed to the canvas lies in
\* 0..206 (x) and 0..112 (y).
C9_NoUint8Wrap ==
    /\ ~wrap
    /\ grid_width \in {0, 7 * 28}
    /\ grid_height \in {0, 6 * 12}
    /\ wh_i <= 7 /\ grid_i <= 8
    /\ row <= 5 /\ col <= 6 /\ day <= 32
    /\ \A c \in LastCmds :
          c.by \in {"header", "grid", "dates"} =>
              /\ \A x \in XCoords(c) : x \in 0..(10 + 7 * 28)
              /\ \A y \in YCoords(c) : y \in 0..(40 + 6 * 12)

C9_Witness ==
    /\ pc = "unit_dates"
    /\ first_day = 6
    /\ days_count = 31
    /\ current_day = 31
    /\ row = 5
    /\ cmds[Len(cmds) - 1].pos = <<10 + 1 * 28 + 1, 40 + 5 * 12 + 1,
                                   10 + 2 * 28 - 1, 40 + 6 * 12 - 1>>

\* the renderer steps in the order draw_calendar_page is to take them
Rank(b) ==
    CASE b = "clear" -> 1
      [] b = "title" -> 2
      [] b = "header" -> 3
      [] b = "grid" -> 4
      [] b = "dates" -> 5
      [] b = "footer" -> 6

By(seq, b) == SelectSeq(seq, LAMBDA c : c.by = b)

\* C1: every call of draw_calendar_page decomposes the timestamp first,
\* then clears the canvas to WHITE before any other command, then issues
\* the title, the seven weekday labels, the grid lines, the day numbers
\* and last the HH:MM footer; no command of an earlier step follows one of
\* a later step and the clear happens exactly once per call.
C1_FixedOrder ==
    /\ pc = "p_clear" =>
          /\ cmds = <<>>
          /\ year = tm.tm_year + YEAR0
          /\ month = tm.tm_mon + 1
          /\ current_day = tm.tm_mday
    /\ pc \notin {"idle", "p_clear"} => cmds # <<>>
    /\ cmds # <<>> =>
          /\ cmds[1] = Paint_Clear("clear", WHITE)
          /\ Len(By(cmds, "clear")) = 1
    /\ \A k \in 1..(Len(cmds) - 1) : Rank(cmds[k].by) <= Rank(cmds[k + 1].by)
    /\ (pc = "idle" /\ cmds # <<>>) =>
          /\ Len(By(cmds, "title")) = 1
          /\ Len(By(cmds, "header")) = 7
          /\ Len(By(cmds, "grid")) = 15
          /\ Len(DayTexts) = GregorianDays(year, month)
          /\ Len(By(cmds, "footer")) = 1
          /\ cmds[Len(cmds)].str = TimeText(tm.tm_hour, tm.tm_min)

C1_Witness ==
    /\ pc = "idle"
    /\ year = 2024
    /\ month = 2
    /\ current_day = 15
    /\ Len(cmds) = 1 + 1 + 7 + 15 + 30 + 1
    /\ cmds[2].str = <<"2", "0", "2", "4", "U+5E74", "2", "U+6708">>
    /\ cmds[Len(cmds)].str = <<"0", "9", ":", "0", "5">>

SameAsFirstInput == firstIn = <<[tm |-> tm, dow |-> dow]>>

\* C7: no state is kept between renders: whatever calls came before, a
\* call with a timestamp issues the very commands the first call of the
\* program issued for that timestamp; the week header and the grid issue
\* the same commands in every call, and the title the same commands
\* whenever year and month are the same.
C7_NoHiddenState ==
    (pc = "idle" /\ firstOut # <<>>) =>
        /\ SameAsFirstInput => cmds = firstOut[1]
        /\ By(cmds, "header") = By(firstOut[1], "header")
        /\ By(cmds, "grid") = By(firstOut[1], "grid")
        /\ (tm.tm_year = firstIn[1].tm.tm_year /\ tm.tm_mon = firstIn[1].tm.tm_mon)
              => By(cmds, "title") = By(firstOut[1], "title")

C7_Witness ==
    /\ pc = "idle"
    /\ firstOut # <<>>
    /\ SameAsFirstInput
    /\ tm = Tm(124, 11, 31, 12, 30)
    /\ cmds = firstOut[1]
    /\ Len(DayTexts) = 31

\* C10: with month in 1..12, day in 1..31, hour in 0..23, minute in 0..59
\* and a leap flag of 0 or 1, every array access of a render is in bounds:
\* the month table at row 0..1 and column 0..11, the weekday labels at
\* 0..6, the day number in the 3 bytes of day_buf, the title and the footer
\* in their 20 bytes.  get_days_in_month checks nothing itself: called with
\* a month outside 1..12 it reads outside the table.
C10_AccessesInBounds ==
    /\ ret # "unit_lookup" =>
          /\ ~oob
          /\ pc = "dates_enter" =>
                /\ U8(is_leap(year)) \in 0..1
                /\ DaysColumn(month) \in 0..11
          /\ (pc = "wh_loop" /\ WeekHeaderCond(wh_i)) => wh_i \in 0..6
          /\ \A c \in LastCmds :
                /\ c.by = "dates" /\ IsText(c) => BytesWritten(c.str) <= 3
                /\ c.by \in {"title", "footer"} => BytesWritten(c.str) <= 20
    /\ pc = "unit_lookup" => (oob <=> month \notin 1..12)

C10_Witness ==
    /\ pc = "idle"
    /\ year = 2024
    /\ month = 12
    /\ Len(DayTexts) = 31
    /\ DayTexts[31].str = <<"3", "1">>
    /\ ~oob

=============================================================================
